---------------------------- MODULE Spec2Model ----------------------------
(***************************************************************************)
(* Bucket Flow Calculus: the fixed-timestep physics step (math.ts) and the *)
(* frame-driven simulation driver (useBucketSimulation).                   *)
(*                                                                         *)
(* Numbers.  The program computes with IEEE doubles.  The model computes   *)
(* on an integer grid: every quantity is a whole number of grid units, a   *)
(* quotient or a square root that falls between two grid points is rounded *)
(* to the nearest one (as the double operation rounds to the nearest       *)
(* double), and NaN is a value of its own that every arithmetic operation  *)
(* propagates and every comparison rejects.                                *)
(*                                                                         *)
(* Units.  One unit of simulated time is 1/360 s, so FIXED_DT = 1/120 s is *)
(* 3 units, MAX_FRAME_DT = 0.1 s is 36 units and the publish interval      *)
(* 1/30 s is 12 units.  Frame timestamps are counted in units of 1/180 s,  *)
(* so the conversion of a timestamp difference to seconds doubles it.      *)
(* Angles are counted in quarter turns.                                    *)
(***************************************************************************)
EXTENDS Integers, Sequences, FiniteSets, TLC

(***************************************************************************)
(* JavaScript numbers                                                      *)
(***************************************************************************)

\* The double NaN, kept apart from every grid value the model reaches.
NaN == -1000000

IsNaN(x) == x = NaN

Add(a, b) == IF IsNaN(a) \/ IsNaN(b) THEN NaN ELSE a + b

Sub(a, b) == IF IsNaN(a) \/ IsNaN(b) THEN NaN ELSE a - b

Mul(a, b) == IF IsNaN(a) \/ IsNaN(b) THEN NaN ELSE a * b

\* a > b, a >= b on doubles: false as soon as one side is NaN.
Gt(a, b) == ~IsNaN(a) /\ ~IsNaN(b) /\ a > b

Ge(a, b) == ~IsNaN(a) /\ ~IsNaN(b) /\ a >= b

Le(a, b) == ~IsNaN(a) /\ ~IsNaN(b) /\ a <= b

MathMax(a, b) == IF IsNaN(a) \/ IsNaN(b) THEN NaN ELSE IF a >= b THEN a ELSE b

MathMin(a, b) == IF IsNaN(a) \/ IsNaN(b) THEN NaN ELSE IF a <= b THEN a ELSE b

\* n / d for d > 0, rounded to the nearest grid point, ties to the even one.
RoundDivPos(n, d) ==
  LET q == n \div d
      r == n - q * d
  IN  IF 2 * r < d THEN q
      ELSE IF 2 * r > d THEN q + 1
      ELSE IF q % 2 = 0 THEN q ELSE q + 1

\* a / b on doubles, b # 0.
Div(a, b) ==
  IF IsNaN(a) \/ IsNaN(b) THEN NaN
  ELSE IF b > 0 THEN RoundDivPos(a, b) ELSE RoundDivPos(-a, -b)

\* The largest s with s * s <= n.
RECURSIVE FloorSqrt(_, _)
FloorSqrt(n, s) == IF (s + 1) * (s + 1) > n THEN s ELSE FloorSqrt(n, s + 1)

\* Math.sqrt(n) for n >= 0, rounded to the nearest grid point.
MathSqrt(n) ==
  IF IsNaN(n) THEN NaN
  ELSE LET s == FloorSqrt(n, 0) IN IF n - s * s > s THEN s + 1 ELSE s

\* Math.sin of an angle given in quarter turns.
SinQuarter(q) ==
  LET m == q % 4 IN IF m = 1 THEN 1 ELSE IF m = 3 THEN -1 ELSE 0

\* Math.sin((2 * Math.PI * time) / period).  A zero period makes the
\* argument 0/0 = NaN or x/0 = Infinity, and the sine of either is NaN.
\* Otherwise the angle is 4 * time / period quarter turns; the periods the
\* model uses divide 4 * time.
MathSinTurn(time, period) ==
  IF IsNaN(time) \/ IsNaN(period) \/ period = 0 THEN NaN
  ELSE IF period > 0 THEN SinQuarter((4 * time) \div period)
  ELSE -SinQuarter((4 * time) \div (-period))

(***************************************************************************)
(* math.ts                                                                 *)
(***************************************************************************)

\* Math.PI on the grid.
PI == 3

calculateArea(radius) == PI * radius * radius

calculateInflow(time, params) ==
  IF params.pattern = "constant" THEN MathMax(0, params.qBase)
  ELSE LET sineValue == MathSinTurn(time, params.period)
           qIn == Add(params.qBase, Mul(params.qAmp, sineValue))
       IN  MathMax(0, qIn)

\* The sqrt law applied whatever law the parameters name.
calculateOutflowTorricelli(height, params) ==
  Mul(params.kSqrt, MathSqrt(MathMax(0, height)))

calculateOutflow(height, params) ==
  LET h == MathMax(0, height)
  IN  IF params.law = "linear" THEN Mul(params.kLin, h)
      ELSE Mul(params.kSqrt, MathSqrt(h))

\* calculateSpill with height > hMax in place of height >= hMax.
calculateSpillAboveBrim(height, hMax, qIn, qOut) ==
  IF Gt(height, hMax) /\ Gt(qIn, qOut) THEN Sub(qIn, qOut) ELSE 0

\* A bucket that never reports a spill.
calculateSpillNever(height, hMax, qIn, qOut) == 0

calculateSpill(height, hMax, qIn, qOut) ==
  IF Ge(height, hMax) /\ Gt(qIn, qOut) THEN Sub(qIn, qOut) ELSE 0

\* calculateDhDt guarding area = 0 only: a negative area is divided by.
calculateDhDtOfNonZeroArea(qIn, qOut, qSpill, area) ==
  IF area = 0 THEN 0 ELSE Div(Sub(Sub(qIn, qOut), qSpill), area)

\* calculateDhDt with the outflow and the spill added, not subtracted.
calculateDhDtOfSum(qIn, qOut, qSpill, area) ==
  IF Le(area, 0) THEN 0 ELSE Div(Add(Add(qIn, qOut), qSpill), area)

calculateDhDt(qIn, qOut, qSpill, area) ==
  IF Le(area, 0) THEN 0 ELSE Div(Sub(Sub(qIn, qOut), qSpill), area)

clamp(value, min, max) == MathMin(MathMax(value, min), max)

\* integrateEuler returning the new height as computed, unclamped.
integrateEulerUnclamped(height, dhdt, dt, hMax) == Add(height, Mul(dhdt, dt))

integrateEuler(height, dhdt, dt, hMax) ==
  LET newHeight == Add(height, Mul(dhdt, dt))
  IN  clamp(newHeight, 0, hMax)

\* physicsStep reporting qNet = qIn - qOut, the spill left out.
physicsStepNetOfSpill(height, time, dt, hMax, area, inflowParams, outflowParams) ==
  LET qIn == calculateInflow(time, inflowParams)
      qOut == calculateOutflow(height, outflowParams)
      qSpill == calculateSpill(height, hMax, qIn, qOut)
      qNet == Sub(qIn, qOut)
      dhdt == calculateDhDt(qIn, qOut, qSpill, area)
      newHeight == integrateEuler(height, dhdt, dt, hMax)
  IN  [height |-> newHeight, qIn |-> qIn, qOut |-> qOut,
       qSpill |-> qSpill, qNet |-> qNet]

physicsStep(height, time, dt, hMax, area, inflowParams, outflowParams) ==
  LET qIn == calculateInflow(time, inflowParams)
      qOut == calculateOutflow(height, outflowParams)
      qSpill == calculateSpill(height, hMax, qIn, qOut)
      qNet == Sub(Sub(qIn, qOut), qSpill)
      dhdt == calculateDhDt(qIn, qOut, qSpill, area)
      newHeight == integrateEuler(height, dhdt, dt, hMax)
  IN  [height |-> newHeight, qIn |-> qIn, qOut |-> qOut,
       qSpill |-> qSpill, qNet |-> qNet]

(***************************************************************************)
(* constants.ts                                                            *)
(***************************************************************************)

\* 1 / 120 s, in units of 1/360 s.
FIXED_DT == 3

\* One second of simulated time.
SECOND == 120 * FIXED_DT

\* 0.1 s.
MAX_FRAME_DT == SECOND \div 10

HISTORY_SAMPLE_RATE == 30

\* HISTORY_WINDOW * HISTORY_SAMPLE_RATE in the program (60 * 30 points);
\* the model keeps a window of a few points so that trimming happens.
HISTORY_BUFFER_SIZE == 3

\* (timestamp difference) / 1000: a timestamp unit is 1/180 s.
MsToSeconds(ms) == 2 * ms

(***************************************************************************)
(* Bounds of the model                                                     *)
(***************************************************************************)

\* The host clock (frame timestamps) runs up to MaxClock.
MaxClock == 22

\* The longest gap between two frames: longer than MAX_FRAME_DT.
MaxGap == 19

\* The gaps between frames: shorter than FIXED_DT (two in three such frames
\* complete a physics step), and beyond the cap.
FrameGaps == {1, MaxGap}

\* Parameter changes made through the controls in one run.
MaxParamChanges == 1

\* Frame callback handles the host hands out.
MaxRafId == 3

\* Inputs of a direct call of physicsStep: heights from below 0 to above
\* every hMax, times over a full sine period.
MaxCallHeight == 4

MaxCallTime == 3

CallHeights == -1..MaxCallHeight

CallTimes == 0..MaxCallTime

CallDts == {-1, 0, FIXED_DT}

CallHMax == {-1, 0, 2, 3}

CallAreas == {-1, 0, 1, 2}

CallInflows ==
  {[pattern |-> "constant", qBase |-> q, qAmp |-> 0, period |-> 4] :
     q \in {-2, 0, 2, 4}}
  \cup {[pattern |-> "sine", qBase |-> q, qAmp |-> 2, period |-> p] :
          q \in {0, 2}, p \in {0, 4}}

CallOutflows ==
  {[law |-> "linear", kLin |-> k, kSqrt |-> 0] : k \in {-1, 0, 1, 2}}
  \cup {[law |-> "sqrt", kLin |-> 0, kSqrt |-> k] : k \in {0, 2}}

\* The parameters the page starts with (DEFAULT_PARAMS on the grid): the
\* initial height is the equilibrium of inflow 6 against outflow 1 * h.
DEFAULT_PARAMS ==
  [bucket |-> [hMax |-> 12, radius |-> 1, h0 |-> 6],
   inflow |-> [pattern |-> "constant", qBase |-> 6, qAmp |-> 3, period |-> 12],
   outflow |-> [law |-> "linear", kLin |-> 1, kSqrt |-> 2]]

\* ControlsPanel.updateBucket: merge the update, then clamp h0 to hMax.
updateBucket(params, updates) ==
  LET merged == [f \in DOMAIN params.bucket |->
                   IF f \in DOMAIN updates THEN updates[f] ELSE params.bucket[f]]
      newBucket == IF merged.h0 > merged.hMax
                   THEN [merged EXCEPT !.h0 = merged.hMax] ELSE merged
  IN  [params EXCEPT !.bucket = newBucket]

updateInflow(params, updates) ==
  [params EXCEPT !.inflow = [f \in DOMAIN params.inflow |->
     IF f \in DOMAIN updates THEN updates[f] ELSE params.inflow[f]]]

updateOutflow(params, updates) ==
  [params EXCEPT !.outflow = [f \in DOMAIN params.outflow |->
     IF f \in DOMAIN updates THEN updates[f] ELSE params.outflow[f]]]

\* The edits the sliders and toggles of the controls panel offer here.
BucketUpdates == {[hMax |-> 3]}

InflowUpdates == {[pattern |-> "sine"], [qBase |-> 15]}

OutflowUpdates == {[law |-> "sqrt"]}

(***************************************************************************)
(* useBucketSimulation: the driver                                         *)
(***************************************************************************)

VARIABLES
  paramsRef,        \* the parameters the loop reads
  stateRef,         \* the driver's current SimulationState
  historyRef,       \* the driver's history buffer
  statusRef,        \* "idle" | "running" | "paused"
  rafIdRef,         \* handle of the frame callback last requested, or NoRaf
  lastTimeRef,      \* timestamp of the last frame, 0 after start and reset
  accumulatorRef,   \* simulated time not yet drained into physics steps
  lastPublishRef,   \* simulated time of the last publication
  stepCountRef,     \* physics steps since the last reset
  state,            \* published state (React state)
  history,          \* published history (React state)
  status,           \* published status (React state)
  rafPending,       \* host: handles of the frame callbacks still to run
  clock,            \* host: the time the frame timestamps are read from
  paramChanges,     \* edits made through the controls so far
  lastCall,         \* the last call made to the driver
  freshStart,       \* no frame has been processed since the last start
  published,        \* the points published since the last reset, in order
  editedSinceReset, \* the parameters were edited after the last reset
  frameTime,        \* capped frame deltas of the frames processed since reset
  twin,             \* a second driver instance, given the same calls
  pc,               \* "driver", or "call"/"returned" for a direct call
  args,             \* arguments of a direct call of physicsStep
  ret               \* its result

driverVars ==
  <<paramsRef, stateRef, historyRef, statusRef, rafIdRef, lastTimeRef,
    accumulatorRef, lastPublishRef, stepCountRef, state, history, status,
    rafPending>>

vars ==
  <<paramsRef, stateRef, historyRef, statusRef, rafIdRef, lastTimeRef,
    accumulatorRef, lastPublishRef, stepCountRef, state, history, status,
    rafPending, clock, paramChanges, lastCall, freshStart, published,
    editedSinceReset, frameTime, twin, pc, args, ret>>

\* rafIdRef.current === null
NoRaf == 0

\* createInitialState reporting the flows of its parameters' laws at time 0.
createInitialStateWithFlows(params) ==
  LET qIn == calculateInflow(0, params.inflow)
      qOut == calculateOutflow(params.bucket.h0, params.outflow)
      qSpill == calculateSpill(params.bucket.h0, params.bucket.hMax, qIn, qOut)
  IN  [time |-> 0, height |-> params.bucket.h0, qIn |-> qIn, qOut |-> qOut,
       qSpill |-> qSpill, qNet |-> Sub(Sub(qIn, qOut), qSpill),
       isSpilling |-> Gt(qSpill, 0)]

\* createInitialState reading h0 from the defaults, not from its argument.
createInitialStateFromDefaults(params) ==
  [time |-> 0, height |-> DEFAULT_PARAMS.bucket.h0, qIn |-> 0, qOut |-> 0,
   qSpill |-> 0, qNet |-> 0, isSpilling |-> FALSE]

createInitialState(params) ==
  [time |-> 0, height |-> params.bucket.h0, qIn |-> 0, qOut |-> 0,
   qSpill |-> 0, qNet |-> 0, isSpilling |-> FALSE]

\* The arguments and the result while no direct call is being made.
NoArgs ==
  [height |-> 0, time |-> 0, dt |-> 0, hMax |-> 0, area |-> 0,
   inflow |-> DEFAULT_PARAMS.inflow, outflow |-> DEFAULT_PARAMS.outflow]

NoRet == [height |-> 0, qIn |-> 0, qOut |-> 0, qSpill |-> 0, qNet |-> 0]

\* The refs and the React state of an instance of the hook right after its
\* first render with `params`, and the callbacks its host holds for it.
useBucketSimulation(params) ==
  [paramsRef |-> params,
   stateRef |-> createInitialState(params),
   historyRef |-> <<>>,
   statusRef |-> "idle",
   rafIdRef |-> NoRaf,
   lastTimeRef |-> 0,
   accumulatorRef |-> 0,
   lastPublishRef |-> 0,
   stepCountRef |-> 0,
   state |-> createInitialState(params),
   history |-> <<>>,
   status |-> "idle",
   rafPending |-> {}]

\* The hook as mounted by BucketFlowPage with DEFAULT_PARAMS.
Init ==
  /\ paramsRef = DEFAULT_PARAMS
  /\ stateRef = createInitialState(DEFAULT_PARAMS)
  /\ historyRef = <<>>
  /\ statusRef = "idle"
  /\ rafIdRef = NoRaf
  /\ lastTimeRef = 0
  /\ accumulatorRef = 0
  /\ lastPublishRef = 0
  /\ stepCountRef = 0
  /\ state = createInitialState(DEFAULT_PARAMS)
  /\ history = <<>>
  /\ status = "idle"
  /\ rafPending = {}
  /\ clock = 0
  /\ paramChanges = 0
  /\ lastCall = [name |-> "mount", from |-> "idle", gap |-> 0, first |-> FALSE]
  /\ freshStart = FALSE
  /\ published = <<>>
  /\ editedSinceReset = FALSE
  /\ frameTime = 0
  /\ twin = useBucketSimulation(DEFAULT_PARAMS)
  /\ pc = "driver"
  /\ args = NoArgs
  /\ ret = NoRet

\* requestAnimationFrame: a handle no pending callback has and that differs
\* from the one the driver still holds.
requestAnimationFrame(pending, held) ==
  CHOOSE id \in 1..MaxRafId :
    /\ id \notin pending /\ id # held
    /\ \A j \in 1..MaxRafId : (j \notin pending /\ j # held) => id <= j

CanRequestFrame(pending, held) ==
  \E id \in 1..MaxRafId : id \notin pending /\ id # held

\* A cancellation the host does not act on.
cancelAnimationFrameIgnored(pending, id) == pending

\* if (rafIdRef.current !== null) cancelAnimationFrame(rafIdRef.current)
cancelAnimationFrame(pending, id) == IF id # NoRaf THEN pending \ {id} ELSE pending

\* simTime taken after the step it belongs to.
simTimeAfterStep(stepCount) == (stepCount + 1) * FIXED_DT

\* const simTime = stepCountRef.current * FIXED_DT;
simTimeOf(stepCount) == stepCount * FIXED_DT

\* A variable time step: the whole accumulator integrated in one step.
stepDtWholeAccumulator(accumulator) == accumulator

\* The dt handed to physicsStep: FIXED_DT, whatever has accumulated.
stepDt(accumulator) == FIXED_DT

\* The parameters a stale closure would see: those of the first render.
drainParamsOfFirstRender(current) == DEFAULT_PARAMS

\* const params = paramsRef.current;   (read once, before the loop)
drainParams(current) == current

\* isSpilling taken as qSpill >= 0.
isSpillingFromZero(result) == Ge(result.qSpill, 0)

\* isSpilling: result.qSpill > 0
isSpilling(result) == Gt(result.qSpill, 0)

\* The loop test with > in place of >=.
drainContinuesStrict(accumulator) == accumulator > FIXED_DT

\* while (accumulatorRef.current >= FIXED_DT)
drainContinues(accumulator) == accumulator >= FIXED_DT

\* The while loop of runPhysics over the refs it updates (stateRef,
\* accumulatorRef, stepCountRef), under one snapshot of the parameters.
RECURSIVE runPhysicsLoop(_, _, _)
runPhysicsLoop(refs, params, area) ==
  IF drainContinues(refs.accumulator)
  THEN LET simTime == simTimeOf(refs.stepCount)
           result == physicsStep(refs.state.height, simTime,
                                 stepDt(refs.accumulator),
                                 params.bucket.hMax, area, params.inflow,
                                 params.outflow)
       IN  runPhysicsLoop(
             [state |-> [time |-> simTime + FIXED_DT,
                         height |-> result.height,
                         qIn |-> result.qIn,
                         qOut |-> result.qOut,
                         qSpill |-> result.qSpill,
                         qNet |-> result.qNet,
                         isSpilling |-> isSpilling(result)],
              accumulator |-> refs.accumulator - FIXED_DT,
              stepCount |-> refs.stepCount + 1],
             params, area)
  ELSE refs

runPhysics(s, acc, n, current) ==
  LET params == drainParams(current)
  IN  runPhysicsLoop([state |-> s, accumulator |-> acc, stepCount |-> n],
                     params, calculateArea(params.bucket.radius))

publishInterval == SECOND \div HISTORY_SAMPLE_RATE

historyPoint(currentState) ==
  [time |-> currentState.time, height |-> currentState.height,
   qIn |-> currentState.qIn, qOut |-> currentState.qOut,
   qNet |-> currentState.qNet, qSpill |-> currentState.qSpill]

\* trimHistory cutting an overlong buffer down to its newest point: slice(-1).
trimHistoryToNewest(h) ==
  IF Len(h) > HISTORY_BUFFER_SIZE THEN SubSeq(h, Len(h), Len(h)) ELSE h

\* trimHistory keeping the oldest points of an overlong buffer: slice(0, N).
trimHistoryToOldest(h) ==
  IF Len(h) > HISTORY_BUFFER_SIZE THEN SubSeq(h, 1, HISTORY_BUFFER_SIZE) ELSE h

\* A history that is never trimmed.
trimHistoryNever(h) == h

\* historyRef.current.slice(-HISTORY_BUFFER_SIZE) when the buffer is too long
trimHistory(h) ==
  IF Len(h) > HISTORY_BUFFER_SIZE
  THEN SubSeq(h, Len(h) - HISTORY_BUFFER_SIZE + 1, Len(h))
  ELSE h

\* publishState: what it leaves in historyRef, state, history, lastPublishRef.
publishState(currentState, hist) ==
  LET h == trimHistory(Append(hist, historyPoint(currentState)))
  IN  [historyRef |-> h, state |-> currentState, history |-> h,
       lastPublishRef |-> currentState.time]

\* tick without its status guard.
tickNeverIgnored(st) == FALSE

\* if (statusRef.current !== 'running') return;   (tick)
tickIgnored(st) == st # "running"

\* start without its status guard.
startNeverIgnored(st) == FALSE

\* if (statusRef.current === 'running') return;   (start)
startIgnored(st) == st = "running"

\* start leaving lastTimeRef as it is.
lastTimeKept(last) == last

\* lastTimeRef.current = 0;   (start)
lastTimeAtStart(last) == 0

\* The frame delta added to the accumulator as it is, without the cap.
frameDtUnclamped(frameDt) == frameDt

\* The frame delta capped at one second.
frameDtCappedAtSecond(frameDt) == IF frameDt <= SECOND THEN frameDt ELSE SECOND

\* const clampedDt = Math.min(frameDt, MAX_FRAME_DT);
clampFrameDt(frameDt) == IF frameDt <= MAX_FRAME_DT THEN frameDt ELSE MAX_FRAME_DT

\* The accumulator overwritten by the frame delta, the remainder dropped.
accumulateFrameOnly(accumulator, clampedDt) == clampedDt

\* accumulatorRef.current += clampedDt;
accumulate(accumulator, clampedDt) == accumulator + clampedDt

\* The frame delta measured from lastTimeRef even when that is 0.
frameDeltaSinceZero(timestamp, last) == MsToSeconds(timestamp - last)

\* const frameDt = lastTimeRef.current > 0 ? (timestamp - last) / 1000 : 0;
frameDelta(timestamp, last) ==
  IF last > 0 THEN MsToSeconds(timestamp - last) ELSE 0

\* The publication test against two publish intervals.
publishDueAtHalfRate(time, last) == time - last >= 2 * publishInterval

\* Every frame publishes.
publishDueAlways(time, last) == TRUE

\* The publication test with > in place of >=.
publishDueStrict(time, last) == time - last > publishInterval

\* stateRef.current.time - lastPublishRef.current >= publishInterval
publishDue(time, last) == time - last >= publishInterval

\* start publishing on every start, with a history or without.
startAlwaysPublishes(hist) == TRUE

\* start publishing nothing, whatever the history.
startNeverPublishes(hist) == FALSE

\* if (historyRef.current.length === 0) publishState();   (start)
startPublishes(hist) == Len(hist) = 0

(***************************************************************************)
(* The same hook as a function of one instance's refs and React state: the *)
(* second instance runs beside the first, is handed the same calls, frame  *)
(* timestamps and parameters, and lives in a host of its own that numbers  *)
(* its frame callbacks from the top.                                       *)
(***************************************************************************)

\* requestAnimationFrame of the second host: the largest free handle.
requestAnimationFrameTwin(pending, held) ==
  CHOOSE id \in 1..MaxRafId :
    /\ id \notin pending /\ id # held
    /\ \A j \in 1..MaxRafId : (j \notin pending /\ j # held) => id >= j

\* A step counter kept in one module-level variable that every instance
\* uses: the second instance reads what the first has just written.
stepCountOfModule(d) == stepCountRef'

\* const stepCountRef = useRef(0): each instance counts its own steps.
stepCountOf(d) == d.stepCountRef

tickOf(d, timestamp) ==
  IF tickIgnored(d.statusRef)
  THEN [d EXCEPT !.rafPending = d.rafPending \ {d.rafIdRef}]
  ELSE LET frameDt == frameDelta(timestamp, d.lastTimeRef)
           clampedDt == clampFrameDt(frameDt)
           ran == runPhysics(d.stateRef,
                             accumulate(d.accumulatorRef, clampedDt),
                             stepCountOf(d), d.paramsRef)
           pub == IF publishDue(ran.state.time, d.lastPublishRef)
                  THEN publishState(ran.state, d.historyRef)
                  ELSE [historyRef |-> d.historyRef, state |-> d.state,
                        history |-> d.history,
                        lastPublishRef |-> d.lastPublishRef]
           pending == d.rafPending \ {d.rafIdRef}
           id == requestAnimationFrameTwin(pending, d.rafIdRef)
       IN  [d EXCEPT !.lastTimeRef = timestamp,
                     !.stateRef = ran.state,
                     !.accumulatorRef = ran.accumulator,
                     !.stepCountRef = ran.stepCount,
                     !.historyRef = pub.historyRef,
                     !.state = pub.state,
                     !.history = pub.history,
                     !.lastPublishRef = pub.lastPublishRef,
                     !.rafIdRef = id,
                     !.rafPending = pending \cup {id}]

startOf(d) ==
  IF startIgnored(d.statusRef) THEN d
  ELSE LET pub == IF startPublishes(d.historyRef)
                  THEN publishState(d.stateRef, d.historyRef)
                  ELSE [historyRef |-> d.historyRef, state |-> d.state,
                        history |-> d.history,
                        lastPublishRef |-> d.lastPublishRef]
           id == requestAnimationFrameTwin(d.rafPending, d.rafIdRef)
       IN  [d EXCEPT !.statusRef = "running",
                     !.status = "running",
                     !.lastTimeRef = lastTimeAtStart(d.lastTimeRef),
                     !.historyRef = pub.historyRef,
                     !.state = pub.state,
                     !.history = pub.history,
                     !.lastPublishRef = pub.lastPublishRef,
                     !.rafIdRef = id,
                     !.rafPending = d.rafPending \cup {id}]

pauseOf(d) ==
  [d EXCEPT !.statusRef = "paused",
            !.status = "paused",
            !.rafPending = cancelAnimationFrame(d.rafPending, d.rafIdRef),
            !.rafIdRef = NoRaf]

resetOf(d) ==
  [d EXCEPT !.rafPending = cancelAnimationFrame(d.rafPending, d.rafIdRef),
            !.rafIdRef = NoRaf,
            !.stateRef = createInitialState(d.paramsRef),
            !.historyRef = <<>>,
            !.accumulatorRef = 0,
            !.lastTimeRef = 0,
            !.lastPublishRef = 0,
            !.stepCountRef = 0,
            !.statusRef = "idle",
            !.state = createInitialState(d.paramsRef),
            !.history = <<>>,
            !.status = "idle"]

\* useState(createInitialState(params)) taken anew at every render.
useStateReinitialised(current, params) == createInitialState(params)

\* useState(() => createInitialState(params)): the initializer runs on the
\* first render only, a re-render with new parameters keeps the state.
useStateOnRerender(current, params) == current

setParamsOf(d, params) ==
  [d EXCEPT !.paramsRef = params,
            !.state = useStateOnRerender(d.state, params)]

\* tick(timestamp), with `pending` the callbacks the host still holds.
tick(timestamp, pending) ==
  IF tickIgnored(statusRef)
  THEN /\ rafPending' = pending
       /\ UNCHANGED <<paramsRef, stateRef, historyRef, statusRef, rafIdRef,
                      lastTimeRef, accumulatorRef, lastPublishRef, stepCountRef,
                      state, history, status, freshStart, published>>
  ELSE LET frameDt == frameDelta(timestamp, lastTimeRef)
           clampedDt == clampFrameDt(frameDt)
           ran == runPhysics(stateRef, accumulate(accumulatorRef, clampedDt),
                             stepCountRef, paramsRef)
           pub == publishState(ran.state, historyRef)
       IN  /\ CanRequestFrame(pending, rafIdRef)
           /\ lastTimeRef' = timestamp
           /\ stateRef' = ran.state
           /\ accumulatorRef' = ran.accumulator
           /\ stepCountRef' = ran.stepCount
           /\ IF publishDue(ran.state.time, lastPublishRef)
              THEN /\ historyRef' = pub.historyRef
                   /\ state' = pub.state
                   /\ history' = pub.history
                   /\ lastPublishRef' = pub.lastPublishRef
                   /\ published' = Append(published, historyPoint(ran.state))
              ELSE UNCHANGED <<historyRef, state, history, lastPublishRef,
                               published>>
           /\ rafIdRef' = requestAnimationFrame(pending, rafIdRef)
           /\ rafPending' = pending \cup {requestAnimationFrame(pending, rafIdRef)}
           /\ freshStart' = FALSE
           /\ UNCHANGED <<paramsRef, statusRef, status>>

\* What a frame arriving gap after the previous one adds to the simulated
\* time owed: nothing if the driver is not running, nothing for the first
\* frame after a start, else the time since the previous frame, capped.
cappedDeltaOfFrame(gap) ==
  IF statusRef # "running" \/ freshStart THEN 0
  ELSE IF MsToSeconds(gap) < MAX_FRAME_DT THEN MsToSeconds(gap)
  ELSE MAX_FRAME_DT

\* The host runs a pending frame callback, gap after the previous frame.
Frame(gap) ==
  /\ clock + gap <= MaxClock
  /\ \E id \in rafPending : tick(clock + gap, rafPending \ {id})
  /\ clock' = clock + gap
  /\ lastCall' = [name |-> "tick", from |-> statusRef, gap |-> gap,
                  first |-> freshStart]
  /\ twin' = tickOf(twin, clock + gap)
  /\ frameTime' = frameTime + cappedDeltaOfFrame(gap)
  /\ UNCHANGED <<paramChanges, editedSinceReset, pc, args, ret>>

\* The frame callback invoked while the host holds no request of the driver.
LateFrame(gap) ==
  /\ clock + gap <= MaxClock
  /\ rafPending = {}
  /\ tick(clock + gap, rafPending)
  /\ clock' = clock + gap
  /\ lastCall' = [name |-> "tick", from |-> statusRef, gap |-> gap,
                  first |-> freshStart]
  /\ twin' = tickOf(twin, clock + gap)
  /\ frameTime' = frameTime + cappedDeltaOfFrame(gap)
  /\ UNCHANGED <<paramChanges, editedSinceReset, pc, args, ret>>

start ==
  /\ IF startIgnored(statusRef)
     THEN UNCHANGED <<statusRef, status, lastTimeRef, historyRef, state, history,
                      lastPublishRef, rafIdRef, rafPending, freshStart,
                      published>>
     ELSE LET pub == publishState(stateRef, historyRef)
          IN  /\ CanRequestFrame(rafPending, rafIdRef)
              /\ statusRef' = "running"
              /\ status' = "running"
              /\ lastTimeRef' = lastTimeAtStart(lastTimeRef)
              /\ IF startPublishes(historyRef)
                 THEN /\ historyRef' = pub.historyRef
                      /\ state' = pub.state
                      /\ history' = pub.history
                      /\ lastPublishRef' = pub.lastPublishRef
                      /\ published' = Append(published, historyPoint(stateRef))
                 ELSE UNCHANGED <<historyRef, state, history, lastPublishRef,
                                  published>>
              /\ rafIdRef' = requestAnimationFrame(rafPending, rafIdRef)
              /\ rafPending' =
                   rafPending \cup {requestAnimationFrame(rafPending, rafIdRef)}
              /\ freshStart' = TRUE
  /\ lastCall' = [name |-> "start", from |-> statusRef, gap |-> 0, first |-> FALSE]
  /\ twin' = startOf(twin)
  /\ UNCHANGED <<paramsRef, stateRef, accumulatorRef, stepCountRef, clock,
                 paramChanges, editedSinceReset, frameTime, pc, args, ret>>

pause ==
  /\ statusRef' = "paused"
  /\ status' = "paused"
  /\ rafPending' = cancelAnimationFrame(rafPending, rafIdRef)
  /\ rafIdRef' = NoRaf
  /\ lastCall' = [name |-> "pause", from |-> statusRef, gap |-> 0, first |-> FALSE]
  /\ twin' = pauseOf(twin)
  /\ UNCHANGED <<paramsRef, stateRef, historyRef, lastTimeRef, accumulatorRef,
                 lastPublishRef, stepCountRef, state, history, clock,
                 paramChanges, freshStart, published, editedSinceReset,
                 frameTime, pc, args, ret>>

reset ==
  /\ rafPending' = cancelAnimationFrame(rafPending, rafIdRef)
  /\ rafIdRef' = NoRaf
  /\ stateRef' = createInitialState(paramsRef)
  /\ historyRef' = <<>>
  /\ accumulatorRef' = 0
  /\ lastTimeRef' = 0
  /\ lastPublishRef' = 0
  /\ stepCountRef' = 0
  /\ statusRef' = "idle"
  /\ state' = createInitialState(paramsRef)
  /\ history' = <<>>
  /\ status' = "idle"
  /\ freshStart' = FALSE
  /\ published' = <<>>
  /\ editedSinceReset' = FALSE
  /\ frameTime' = 0
  /\ lastCall' = [name |-> "reset", from |-> statusRef, gap |-> 0, first |-> FALSE]
  /\ twin' = resetOf(twin)
  /\ UNCHANGED <<paramsRef, clock, paramChanges, pc, args, ret>>

\* An edit in the controls panel: BucketFlowPage re-renders with the new
\* parameters and the hook's effect stores them in paramsRef.
setParams(params) ==
  /\ paramChanges < MaxParamChanges
  /\ params # paramsRef
  /\ paramsRef' = params
  /\ paramChanges' = paramChanges + 1
  /\ lastCall' = [name |-> "setParams", from |-> statusRef, gap |-> 0,
                  first |-> FALSE]
  /\ state' = useStateOnRerender(state, params)
  /\ editedSinceReset' = TRUE
  /\ twin' = setParamsOf(twin, params)
  /\ UNCHANGED <<stateRef, historyRef, statusRef, rafIdRef, lastTimeRef,
                 accumulatorRef, lastPublishRef, stepCountRef, history,
                 status, rafPending, clock, freshStart, published,
                 frameTime, pc, args, ret>>

ParamEdits(params) ==
  {updateBucket(params, u) : u \in BucketUpdates}
    \cup {updateInflow(params, u) : u \in InflowUpdates}
    \cup {updateOutflow(params, u) : u \in OutflowUpdates}

Next ==
  \/ start
  \/ pause
  \/ reset
  \/ \E params \in ParamEdits(paramsRef) : setParams(params)
  \/ \E gap \in FrameGaps : Frame(gap)
  \/ \E gap \in FrameGaps : LateFrame(gap)

Spec == Init /\ [][Next]_vars

(***************************************************************************)
(* A direct call of the exported physicsStep on arbitrary arguments        *)
(***************************************************************************)

InitStep ==
  /\ paramsRef = DEFAULT_PARAMS
  /\ stateRef = createInitialState(DEFAULT_PARAMS)
  /\ historyRef = <<>>
  /\ statusRef = "idle"
  /\ rafIdRef = NoRaf
  /\ lastTimeRef = 0
  /\ accumulatorRef = 0
  /\ lastPublishRef = 0
  /\ stepCountRef = 0
  /\ state = createInitialState(DEFAULT_PARAMS)
  /\ history = <<>>
  /\ status = "idle"
  /\ rafPending = {}
  /\ clock = 0
  /\ paramChanges = 0
  /\ lastCall = [name |-> "mount", from |-> "idle", gap |-> 0, first |-> FALSE]
  /\ freshStart = FALSE
  /\ published = <<>>
  /\ editedSinceReset = FALSE
  /\ frameTime = 0
  /\ twin = useBucketSimulation(DEFAULT_PARAMS)
  /\ pc = "call"
  /\ args \in [height : CallHeights, time : CallTimes, dt : CallDts,
               hMax : CallHMax, area : CallAreas, inflow : CallInflows,
               outflow : CallOutflows]
  /\ ret = NoRet

callPhysicsStep ==
  /\ pc = "call"
  /\ ret' = physicsStep(args.height, args.time, args.dt, args.hMax, args.area,
                        args.inflow, args.outflow)
  /\ pc' = "returned"
  /\ UNCHANGED <<paramsRef, stateRef, historyRef, statusRef, rafIdRef,
                 lastTimeRef, accumulatorRef, lastPublishRef, stepCountRef,
                 state, history, status, rafPending, clock, paramChanges,
                 lastCall, freshStart, published, editedSinceReset,
                 frameTime, twin, args>>

SpecStep == InitStep /\ [][callPhysicsStep]_vars

\* The driver and the direct calls together.
InitAll == Init \/ InitStep

NextAll == (pc = "driver" /\ Next) \/ callPhysicsStep

SpecAll == InitAll /\ [][NextAll]_vars

(***************************************************************************)
(* The hook mounted with the parameters of a test scenario and run with    *)
(* those parameters left alone                                             *)
(***************************************************************************)

\* Scenario B on the grid: h0 = hMax, constant inflow 2.5 times the default,
\* linear outflow; the equilibrium height qBase / kLin lies above hMax.
SCENARIO_B ==
  [bucket |-> [hMax |-> 12, radius |-> 1, h0 |-> 12],
   inflow |-> [pattern |-> "constant", qBase |-> 15, qAmp |-> 3, period |-> 12],
   outflow |-> [law |-> "linear", kLin |-> 1, kSqrt |-> 2]]

\* Scenario A: the defaults, which start at the equilibrium height.
SCENARIO_A == DEFAULT_PARAMS

\* Scenario C on the grid: h0 = 0.75 hMax, no inflow, sqrt outflow; the
\* bucket is deep enough to take some publications to drain.
SCENARIO_C ==
  [bucket |-> [hMax |-> 48, radius |-> 1, h0 |-> 36],
   inflow |-> [pattern |-> "constant", qBase |-> 0, qAmp |-> 3, period |-> 12],
   outflow |-> [law |-> "sqrt", kLin |-> 1, kSqrt |-> 1]]

\* A bucket of radius 0, hence of area 0, that would drain if it had one.
ZERO_RADIUS ==
  [bucket |-> [hMax |-> 12, radius |-> 0, h0 |-> 9],
   inflow |-> [pattern |-> "constant", qBase |-> 0, qAmp |-> 3, period |-> 12],
   outflow |-> [law |-> "linear", kLin |-> 1, kSqrt |-> 2]]

Scenarios == {SCENARIO_A, SCENARIO_B, SCENARIO_C, ZERO_RADIUS}

InitScenario ==
  \E params \in Scenarios :
    /\ paramsRef = params
    /\ stateRef = createInitialState(params)
    /\ historyRef = <<>>
    /\ statusRef = "idle"
    /\ rafIdRef = NoRaf
    /\ lastTimeRef = 0
    /\ accumulatorRef = 0
    /\ lastPublishRef = 0
    /\ stepCountRef = 0
    /\ state = createInitialState(params)
    /\ history = <<>>
    /\ status = "idle"
    /\ rafPending = {}
    /\ clock = 0
    /\ paramChanges = 0
    /\ lastCall = [name |-> "mount", from |-> "idle", gap |-> 0, first |-> FALSE]
    /\ freshStart = FALSE
    /\ published = <<>>
    /\ editedSinceReset = FALSE
  /\ frameTime = 0
    /\ twin = useBucketSimulation(params)
    /\ pc = "driver"
    /\ args = NoArgs
    /\ ret = NoRet

NextScenario ==
  \/ start
  \/ pause
  \/ reset
  \/ \E gap \in FrameGaps : Frame(gap)
  \/ \E gap \in FrameGaps : LateFrame(gap)

SpecScenario == InitScenario /\ [][NextScenario]_vars

\* The host delivers a frame to a driver that holds a request: the clock
\* moves on by the gap of that frame.  Only Frame advances the clock while a
\* request is pending, and it can run whenever one is, so these are the
\* steps of Frame.
FrameArrives ==
  /\ rafPending # {}
  /\ \E gap \in FrameGaps : clock + gap <= MaxClock /\ clock' = clock + gap

\* The scenarios under a host that runs every frame callback it holds, as
\* long as the clock of the model allows another frame.
SpecProgress ==
  /\ InitScenario
  /\ [][NextScenario]_vars
  /\ WF_clock(FrameArrives)

\* The scenarios and the direct calls together.
InitCases == InitScenario \/ InitStep

NextCases == (pc = "driver" /\ NextScenario) \/ callPhysicsStep

SpecCases == InitCases /\ [][NextCases]_vars

(***************************************************************************)
(* Properties                                                              *)
(***************************************************************************)

\* 0 <= height <= hMax as the program compares doubles.
HeightInRange(height, hMax) == Ge(height, 0) /\ Le(height, hMax)

\* C1: every call of physicsStep with hMax >= 0 returns a height with
\* 0 <= height <= hMax, whatever the other arguments are.
C1_StepHeightInRange ==
  (pc = "returned" /\ args.hMax >= 0) => HeightInRange(ret.height, args.hMax)

\* C2: the driver's current state and its published state always have
\* 0 <= height <= hMax, hMax being that of the current parameters.
C2_DriverHeightInRange ==
  /\ HeightInRange(stateRef.height, paramsRef.bucket.hMax)
  /\ HeightInRange(state.height, paramsRef.bucket.hMax)

Conserved(r) == r.qNet = Sub(Sub(r.qIn, r.qOut), r.qSpill)

C4_SpillCorrect ==
  pc = "returned" =>
    /\ (args.height = args.hMax /\ Gt(ret.qIn, ret.qOut)) =>
         /\ ret.qSpill = Sub(ret.qIn, ret.qOut)
         /\ ret.qNet = 0
         /\ calculateDhDt(ret.qIn, ret.qOut, ret.qSpill, args.area) = 0
         /\ ret.height = args.height
    /\ args.height < args.hMax => ret.qSpill = 0

\* A step at the brim of a real bucket with more inflow than outflow.
C4_Witness ==
  /\ pc = "returned"
  /\ args.height = args.hMax
  /\ args.area > 0
  /\ args.dt > 0
  /\ ret.qOut > 0
  /\ ret.qSpill > 0

AllowedTransitions ==
  {<<"idle", "running">>, <<"paused", "running">>, <<"running", "paused">>,
   <<"running", "idle">>, <<"paused", "idle">>}

\* C5: pause while not running changes nothing, and the status only ever
\* moves Idle->Running, Paused->Running, Running->Paused, Running->Idle or
\* Paused->Idle.
C5_PauseNoOp ==
  [][/\ (lastCall'.name = "pause" /\ statusRef # "running")
          => UNCHANGED driverVars
     /\ statusRef' # statusRef => <<statusRef, statusRef'>> \in AllowedTransitions
    ]_vars

\* C6: start leaves the status Running, and start while Running changes
\* nothing: no state, no publication, no timestamp reset, no new callback.
C6_StartNoOp ==
  [][lastCall'.name = "start" =>
       /\ statusRef' = "running"
       /\ status' = "running"
       /\ statusRef = "running" => UNCHANGED driverVars
    ]_vars

\* start was called on a running driver that had processed frames.
C6_Witness ==
  /\ lastCall.name = "start"
  /\ lastCall.from = "running"
  /\ lastTimeRef > 0
  /\ stepCountRef > 0
  /\ Len(history) > 0

\* C7: right after reset, from whatever status, the driver is in the state
\* of a driver freshly created with the current parameters.
C7_ResetIsFresh ==
  lastCall.name = "reset" =>
    LET fresh == [time |-> 0, height |-> paramsRef.bucket.h0, qIn |-> 0,
                  qOut |-> 0, qSpill |-> 0, qNet |-> 0, isSpilling |-> FALSE]
    IN  /\ statusRef = "idle" /\ status = "idle"
        /\ stateRef = fresh /\ state = fresh
        /\ historyRef = <<>> /\ history = <<>>
        /\ accumulatorRef = 0
        /\ lastTimeRef = 0
        /\ lastPublishRef = 0
        /\ stepCountRef = 0
        /\ rafIdRef = NoRaf
        /\ rafPending = {}

\* reset was called on a running driver whose parameters had been edited.
C7_Witness ==
  /\ lastCall.name = "reset"
  /\ lastCall.from = "running"
  /\ paramsRef.bucket.h0 # DEFAULT_PARAMS.bucket.h0
  /\ clock > 1

Last(h) == h[Len(h)]

\* C8: no call other than reset lowers the step counter, the current time
\* or the last-published time, shortens a history or drops its newest entry.
C8_OnlyResetRewinds ==
  [][lastCall'.name # "reset" =>
       /\ stepCountRef' >= stepCountRef
       /\ stateRef'.time >= stateRef.time
       /\ lastPublishRef' >= lastPublishRef
       /\ Len(historyRef') >= Len(historyRef)
       /\ Len(history') >= Len(history)
       /\ historyRef # <<>> => \E i \in 1..Len(historyRef') :
                                  historyRef'[i] = Last(historyRef)
       /\ history # <<>> => \E i \in 1..Len(history') : history'[i] = Last(history)
    ]_vars

\* A frame published into a full history: the oldest point was dropped.
C8_Witness ==
  /\ lastCall.name = "tick"
  /\ Len(historyRef) = HISTORY_BUFFER_SIZE
  /\ historyRef[1].time > 0
  /\ Last(historyRef).time = stateRef.time

\* C9: a frame callback that runs while the status is Idle or Paused changes
\* nothing in the driver and requests no further callback.
C9_TickIgnored ==
  [][(lastCall'.name = "tick" /\ statusRef # "running") =>
       /\ UNCHANGED <<paramsRef, stateRef, historyRef, statusRef, rafIdRef,
                      lastTimeRef, accumulatorRef, lastPublishRef, stepCountRef,
                      state, history, status>>
       /\ rafPending' \subseteq rafPending
    ]_vars

\* A frame callback ran on a driver paused in mid-run.
C9_Witness ==
  /\ lastCall.name = "tick"
  /\ lastCall.from = "paused"
  /\ stepCountRef > 0
  /\ lastTimeRef > 0

\* C10: pause and start leave the step counter, the current state and the
\* accumulator as they are, and the first frame after a start adds no
\* elapsed time whatever its gap: it runs no step, publishes nothing and
\* only records its timestamp, from which the following frames are measured.
C10_ResumeAddsNoTime ==
  [][/\ lastCall'.name \in {"pause", "start"} =>
          UNCHANGED <<stepCountRef, stateRef, accumulatorRef>>
     /\ (lastCall'.name = "tick" /\ lastCall'.first /\ statusRef = "running") =>
          /\ UNCHANGED <<stepCountRef, stateRef, accumulatorRef, historyRef,
                         history, state, lastPublishRef>>
          /\ lastTimeRef' = clock'
    ]_vars

\* The first frame after a resume, a long gap after the frame before the
\* pause, with simulated time and a remainder carried over the pause.
C10_Witness ==
  /\ lastCall.name = "tick"
  /\ lastCall.first
  /\ lastCall.from = "running"
  /\ lastCall.gap = MaxGap
  /\ stepCountRef > 0
  /\ accumulatorRef > 0

\* A frame callback processed by the running driver (the step just taken).
RunningTick == lastCall'.name = "tick" /\ statusRef = "running"

\* The time since the previous frame, in seconds; 0 on the first frame after
\* a start.
ElapsedSincePreviousTick ==
  IF lastCall'.first THEN 0 ELSE MsToSeconds(lastCall'.gap)

\* C11: a frame processed while Running adds min(frameDt, MAX_FRAME_DT) to
\* the accumulator, frameDt being the time since the previous frame (0 on
\* the first frame after start): what the frame leaves in the accumulator
\* plus what its steps consumed is the old accumulator plus that amount, so
\* time beyond the cap is dropped by the frame that measured it.
C11_CappedFrameDelta ==
  [][RunningTick =>
       LET frameDt == ElapsedSincePreviousTick
           added == IF frameDt < MAX_FRAME_DT THEN frameDt ELSE MAX_FRAME_DT
       IN  accumulatorRef' + FIXED_DT * (stepCountRef' - stepCountRef)
             = accumulatorRef + added
    ]_vars

\* A frame arrived longer than the cap after the previous one and left
\* less than one step in the accumulator.
C11_Witness ==
  /\ lastCall.name = "tick"
  /\ lastCall.from = "running"
  /\ ~lastCall.first
  /\ MsToSeconds(lastCall.gap) > MAX_FRAME_DT
  /\ stepCountRef * FIXED_DT >= MAX_FRAME_DT
  /\ accumulatorRef < FIXED_DT

\* C12: the current state's time is always stepCount * FIXED_DT; a frame
\* raises the time by FIXED_DT for each step it adds to the counter, and the
\* last step of a frame was evaluated at (stepCount - 1) * FIXED_DT, the
\* time before that step (its inflow is the inflow at that time).
C12_TimeIsStepCount ==
  /\ [](stateRef.time = stepCountRef * FIXED_DT)
  /\ [][RunningTick =>
          /\ stepCountRef' >= stepCountRef
          /\ stateRef'.time - stateRef.time
               = FIXED_DT * (stepCountRef' - stepCountRef)
          /\ stepCountRef' > stepCountRef =>
               stateRef'.qIn = calculateInflow((stepCountRef' - 1) * FIXED_DT,
                                               paramsRef.inflow)
       ]_vars

\* Steps were taken under a sine inflow, in frames of different lengths.
C12_Witness ==
  /\ paramsRef.inflow.pattern = "sine"
  /\ stepCountRef > MAX_FRAME_DT \div FIXED_DT
  /\ stateRef.time = stepCountRef * FIXED_DT
  /\ stateRef.qIn # paramsRef.inflow.qBase

\* C13: at the end of a frame processed while Running the driver publishes
\* exactly when the current time is at least publishInterval past the last
\* published time; it then publishes the state the drain ended in and
\* appends one point, and otherwise publishes and appends nothing.
C13_ThrottledPublication ==
  [][RunningTick =>
       IF stateRef'.time - lastPublishRef >= publishInterval
       THEN /\ state' = stateRef'
            /\ lastPublishRef' = stateRef'.time
            /\ historyRef' = trimHistory(Append(historyRef,
                                                historyPoint(stateRef')))
            /\ history' = historyRef'
            /\ Len(published') = Len(published) + 1
       ELSE UNCHANGED <<state, history, historyRef, lastPublishRef, published>>
    ]_vars

\* A frame that ran a dozen steps published one point, several publish
\* intervals after the point before it.
C13_Witness ==
  /\ lastCall.name = "tick"
  /\ lastCall.from = "running"
  /\ Len(history) = 2
  /\ history[2].time - history[1].time > 2 * publishInterval
  /\ history[2].time = stateRef.time

NonDecreasingTimes(h) ==
  \A i \in 1..Len(h) : \A j \in 1..Len(h) : i < j => h[i].time <= h[j].time

\* C14: the driver's history and the published history never hold more than
\* HISTORY_BUFFER_SIZE points, and their times never decrease along them.
C14_HistoryBounded ==
  /\ Len(historyRef) <= HISTORY_BUFFER_SIZE
  /\ Len(history) <= HISTORY_BUFFER_SIZE
  /\ NonDecreasingTimes(historyRef)
  /\ NonDecreasingTimes(history)

\* More points were published than the history holds, and the driver was
\* then paused.
C14_Witness ==
  /\ Len(published) > HISTORY_BUFFER_SIZE
  /\ Len(history) = HISTORY_BUFFER_SIZE
  /\ statusRef = "paused"

\* The last n entries of a sequence, all of it if it is shorter.
Newest(h, n) == IF Len(h) > n THEN SubSeq(h, Len(h) - n + 1, Len(h)) ELSE h

\* C15: the history is, in order, the most recent min(n, HISTORY_BUFFER_SIZE)
\* of the n points published since the last reset.
C15_RollingWindow ==
  /\ historyRef = Newest(published, HISTORY_BUFFER_SIZE)
  /\ history = Newest(published, HISTORY_BUFFER_SIZE)

\* The first point published since the reset has left the history.
C15_Witness ==
  /\ Len(published) = HISTORY_BUFFER_SIZE + 1
  /\ published[1].time = 0
  /\ history[1] = published[2]
  /\ Last(history) = Last(published)

RECURSIVE StateAfterSteps(_, _, _)
StateAfterSteps(r, n, params) ==
  IF n <= 0 THEN r.state
  ELSE LET t == r.stepCount * FIXED_DT
           result == physicsStep(r.state.height, t, FIXED_DT,
                                 params.bucket.hMax,
                                 calculateArea(params.bucket.radius),
                                 params.inflow, params.outflow)
       IN  StateAfterSteps(
             [state |-> [time |-> t + FIXED_DT,
                         height |-> result.height,
                         qIn |-> result.qIn,
                         qOut |-> result.qOut,
                         qSpill |-> result.qSpill,
                         qNet |-> result.qNet,
                         isSpilling |-> Gt(result.qSpill, 0)],
              stepCount |-> r.stepCount + 1],
             n - 1, params)

\* C17: while the parameters have not been edited since the last reset, the
\* current state is the state k steps after the initial state of those
\* parameters, k being the step counter, however the frames arrived.
C17_FrameRateIndependent ==
  ~editedSinceReset =>
    stateRef = StateAfterSteps([state |-> createInitialState(paramsRef),
                                stepCount |-> 0],
                               stepCountRef, paramsRef)

\* A run under parameters set before the last reset, with flows that change
\* from step to step, a dozen steps long.
C17_Witness ==
  /\ ~editedSinceReset
  /\ paramsRef.inflow.pattern = "sine"
  /\ stepCountRef >= MAX_FRAME_DT \div FIXED_DT
  /\ stateRef.height # paramsRef.bucket.h0
  /\ accumulatorRef > 0

\* C18: the steps a frame runs all use the parameters current when the
\* frame arrives: the state it leaves is the state reached from the state
\* before the frame by that many steps under those parameters.
C18_ParamsTakeEffect ==
  [][RunningTick =>
       stateRef' = StateAfterSteps([state |-> stateRef,
                                    stepCount |-> stepCountRef],
                                   stepCountRef' - stepCountRef, paramsRef)
    ]_vars

\* The inflow was raised in mid-run: the history holds a point of the old
\* inflow and the current state has the new one.
C18_Witness ==
  /\ lastCall.name = "tick"
  /\ editedSinceReset
  /\ paramsRef.inflow.qBase # DEFAULT_PARAMS.inflow.qBase
  /\ stateRef.qIn = paramsRef.inflow.qBase
  /\ \E i \in 1..Len(history) : history[i].qIn = DEFAULT_PARAMS.inflow.qBase

\* C19: the published state and history change only in reset, in a start
\* made with an empty history and in a frame processed while Running; the
\* state such a frame publishes is the current state its drain ended in, at
\* the time of the step counter, and it is the newest point of the history.
C19_PublicationPoints ==
  [][/\ (state' # state \/ history' # history) =>
          \/ lastCall'.name = "reset"
          \/ lastCall'.name = "start" /\ historyRef = <<>> /\ history = <<>>
          \/ RunningTick
     /\ (RunningTick /\ (state' # state \/ history' # history)) =>
          /\ state' = stateRef'
          /\ state'.time = stepCountRef' * FIXED_DT
          /\ history' # <<>>
          /\ Last(history') = historyPoint(stateRef')
    ]_vars

\* A paused driver whose current state was ahead of the published one was
\* started again.
C19_Witness ==
  /\ lastCall.name = "start"
  /\ lastCall.from = "paused"
  /\ stateRef.time > state.time
  /\ history # <<>>

Returned == pc = "returned"

\* The coefficient of the outflow law the parameters select.
Coefficient(outflowParams) ==
  IF outflowParams.law = "linear" THEN outflowParams.kLin
  ELSE outflowParams.kSqrt

\* C21: with a constant inflow Q and a linear outflow kLin > 0, a step from
\* the height Q / kLin <= hMax reports qIn = qOut, qSpill = 0 and qNet = 0
\* and returns the height it was given; a driver on Scenario A, which starts
\* at that height, keeps it in every current, published and recorded state.
C21_EquilibriumFixedPoint ==
  /\ (/\ Returned
      /\ args.inflow.pattern = "constant"
      /\ args.inflow.qBase >= 0
      /\ args.outflow.law = "linear"
      /\ args.outflow.kLin > 0
      /\ args.outflow.kLin * args.height = args.inflow.qBase
      /\ args.height <= args.hMax) =>
        /\ ret.qIn = args.inflow.qBase
        /\ ret.qOut = ret.qIn
        /\ ret.qSpill = 0
        /\ ret.qNet = 0
        /\ ret.height = args.height
  /\ (pc = "driver" /\ paramsRef = SCENARIO_A) =>
        /\ stateRef.height = SCENARIO_A.bucket.h0
        /\ state.height = SCENARIO_A.bucket.h0
        /\ \A i \in 1..Len(history) :
             history[i].height = SCENARIO_A.bucket.h0
        /\ stepCountRef > 0 =>
             /\ stateRef.qIn = SCENARIO_A.inflow.qBase
             /\ stateRef.qOut = stateRef.qIn
             /\ stateRef.qSpill = 0
             /\ stateRef.qNet = 0

\* Scenario A after a full frame of steps, the equal flows published.
C21_Witness ==
  /\ pc = "driver"
  /\ paramsRef = SCENARIO_A
  /\ stepCountRef >= MAX_FRAME_DT \div FIXED_DT
  /\ stateRef.height = SCENARIO_A.bucket.h0
  /\ stateRef.qOut = SCENARIO_A.inflow.qBase
  /\ Len(history) > 1
  /\ Last(history).qOut = SCENARIO_A.inflow.qBase

\* The height one physics step after a driver's current state.
HeightAfterStep(height, stepCount, params) ==
  physicsStep(height, stepCount * FIXED_DT, FIXED_DT, params.bucket.hMax,
              calculateArea(params.bucket.radius), params.inflow,
              params.outflow).height

\* C22: with zero inflow and a non-negative outflow coefficient, a step from
\* a height in [0, hMax] over dt >= 0 returns a height that is not above the
\* one given and not below 0, and the step that follows it lowers the height
\* by no more than it did; a driver on Scenario C never raises its height in
\* a frame, never holds, publishes or records a negative height, records
\* heights that do not rise, and from every state it reaches the next step
\* lowers the height by no less than the step after it.
C22_ZeroInflowDrains ==
  /\ []((/\ Returned
         /\ args.inflow.pattern = "constant"
         /\ args.inflow.qBase <= 0
         /\ Coefficient(args.outflow) >= 0
         /\ args.height >= 0
         /\ args.height <= args.hMax
         /\ args.dt >= 0) =>
           LET following == physicsStep(ret.height, args.time + args.dt,
                                        args.dt, args.hMax, args.area,
                                        args.inflow, args.outflow)
           IN  /\ ret.qIn = 0
               /\ ret.height <= args.height
               /\ ret.height >= 0
               /\ following.height <= ret.height
               /\ following.height >= 0
               /\ ret.height - following.height <= args.height - ret.height)
  /\ []((pc = "driver" /\ paramsRef = SCENARIO_C) =>
           /\ stateRef.height >= 0
           /\ stateRef.height <= SCENARIO_C.bucket.h0
           /\ state.height >= stateRef.height
           /\ \A i \in 1..Len(history) : history[i].height >= 0
           /\ \A i, j \in 1..Len(published) :
                i <= j => published[j].height <= published[i].height
           /\ LET next == HeightAfterStep(stateRef.height, stepCountRef,
                                          SCENARIO_C)
                  after == HeightAfterStep(next, stepCountRef + 1, SCENARIO_C)
              IN  /\ next <= stateRef.height
                  /\ after <= next
                  /\ next - after <= stateRef.height - next)
  /\ [][(pc = "driver" /\ paramsRef = SCENARIO_C /\ RunningTick) =>
           stateRef'.height <= stateRef.height]_vars

\* Scenario C drained: the points recorded since the reset fall from h0 to 0,
\* first fast, then slowly.
C22_Witness ==
  /\ pc = "driver"
  /\ paramsRef = SCENARIO_C
  /\ stateRef.height = 0
  /\ Len(published) >= 3
  /\ published[1].height = SCENARIO_C.bucket.h0
  /\ published[2].height < published[1].height
  /\ published[3].height < published[2].height

\* C23: a call with a well-formed bucket (hMax > 0, area > 0, dt > 0, a
\* constant inflow, a non-negative coefficient) returns the height and the
\* flows that the same call returns for the input height clamped to
\* [0, hMax].
C23_ClampedBeforeUse ==
  (/\ Returned
   /\ args.hMax > 0
   /\ args.area > 0
   /\ args.dt > 0
   /\ args.inflow.pattern = "constant"
   /\ Coefficient(args.outflow) >= 0) =>
     ret = physicsStep(clamp(args.height, 0, args.hMax), args.time, args.dt,
                       args.hMax, args.area, args.inflow, args.outflow)

\* C24: a call with area <= 0 returns the input height clamped to [0, hMax],
\* whatever the flows (a NaN inflow included) and whatever dt; a driver whose
\* radius is 0 keeps the height h0 in every current, published and recorded
\* state while its time advances by FIXED_DT per step.
C24_DegenerateAreaFreezes ==
  /\ (Returned /\ args.area <= 0) =>
        /\ ret.height = clamp(args.height, 0, args.hMax)
        /\ ~IsNaN(ret.height)
  /\ (pc = "driver" /\ paramsRef = ZERO_RADIUS) =>
        /\ calculateArea(paramsRef.bucket.radius) = 0
        /\ stateRef.height = ZERO_RADIUS.bucket.h0
        /\ state.height = ZERO_RADIUS.bucket.h0
        /\ \A i \in 1..Len(history) :
             history[i].height = ZERO_RADIUS.bucket.h0
        /\ stateRef.time = stepCountRef * FIXED_DT
        /\ stepCountRef > 0 => stateRef.qOut > stateRef.qIn

\* The bucket of radius 0 a dozen steps into a run: outflow without inflow,
\* time advanced, height still h0 in the newest recorded point.
C24_Witness ==
  /\ pc = "driver"
  /\ paramsRef = ZERO_RADIUS
  /\ stepCountRef >= MAX_FRAME_DT \div FIXED_DT
  /\ stateRef.time >= MAX_FRAME_DT
  /\ stateRef.qNet < 0
  /\ Len(history) > 1
  /\ Last(history).time > 0
  /\ Last(history).height = ZERO_RADIUS.bucket.h0

(***************************************************************************)
(* Flows, rates and mass                                                   *)
(***************************************************************************)

\* C25: whenever the coefficient of the selected outflow law is not
\* negative, a call returns qIn >= 0, qOut >= 0 and qSpill >= 0, for every
\* height, every time and every inflow parameters.
C25_FlowsNonNegative ==
  (Returned /\ Coefficient(args.outflow) >= 0) =>
     /\ Ge(ret.qIn, 0)
     /\ Ge(ret.qOut, 0)
     /\ Ge(ret.qSpill, 0)

\* A call within the domain of the bucket: positive area, a height in
\* [0, hMax], a positive dt, a numeric inflow and a non-negative coefficient.
WellFormedCall ==
  /\ Returned
  /\ args.area > 0
  /\ args.height >= 0
  /\ args.height <= args.hMax
  /\ args.dt > 0
  /\ ~IsNaN(ret.qIn)
  /\ Coefficient(args.outflow) >= 0

\* |x| on the grid.
Abs(x) == IF x < 0 THEN -x ELSE x

C27_MassConservedPerStep ==
  (WellFormedCall /\ ret.qNet % args.area = 0) =>
    args.area * (ret.height - args.height)
      = (ret.qIn - ret.qOut - ret.qSpill) * args.dt

(***************************************************************************)
(* Parameters and state, the drain loop, the first publication             *)
(***************************************************************************)

\* C28: a parameter change leaves the current state, the published state,
\* both histories, the status and the loop's bookkeeping as they were; a
\* frame computes the same state whatever h0 is; reset leaves the parameters
\* as they were and starts again from their h0.
C28_ParamsAndStateFramedApart ==
  [][/\ lastCall'.name = "setParams" =>
          /\ paramsRef' # paramsRef
          /\ stateRef' = stateRef
          /\ state' = state
          /\ historyRef' = historyRef
          /\ history' = history
          /\ statusRef' = statusRef
          /\ status' = status
          /\ stepCountRef' = stepCountRef
          /\ accumulatorRef' = accumulatorRef
     /\ RunningTick =>
          stateRef' = StateAfterSteps(
                        [state |-> stateRef, stepCount |-> stepCountRef],
                        stepCountRef' - stepCountRef,
                        [paramsRef EXCEPT !.bucket.h0 = 0])
     /\ lastCall'.name = "reset" =>
          /\ paramsRef' = paramsRef
          /\ stateRef'.height = paramsRef.bucket.h0
          /\ state'.height = paramsRef.bucket.h0
    ]_vars

\* The bucket was lowered in mid-run, which lowered h0 with it: the current
\* and the published state still show the run that started from the old h0.
C28_Witness ==
  /\ lastCall.name = "setParams"
  /\ lastCall.from = "running"
  /\ paramsRef.bucket.h0 # DEFAULT_PARAMS.bucket.h0
  /\ stepCountRef > 0
  /\ stateRef.height = DEFAULT_PARAMS.bucket.h0
  /\ state.time > 0
  /\ state.height = DEFAULT_PARAMS.bucket.h0
  /\ Len(history) > 1

\* C29: the accumulator is always in [0, FIXED_DT), so every frame's drain
\* loop ends; a frame processed while Running runs at most
\* MAX_FRAME_DT / FIXED_DT steps, however long after the previous frame it
\* arrives.
C29_DrainLoopBounded ==
  /\ [](accumulatorRef >= 0 /\ accumulatorRef < FIXED_DT)
  /\ [][RunningTick =>
          /\ stepCountRef' >= stepCountRef
          /\ accumulatorRef < FIXED_DT =>
               FIXED_DT * (stepCountRef' - stepCountRef) <= MAX_FRAME_DT
    ]_vars

\* One late frame ran all the steps since the reset, MAX_FRAME_DT worth of
\* them, and published once.
C29_Witness ==
  /\ lastCall.name = "tick"
  /\ lastCall.from = "running"
  /\ MsToSeconds(lastCall.gap) > MAX_FRAME_DT
  /\ stepCountRef * FIXED_DT = MAX_FRAME_DT
  /\ Len(published) = 2
  /\ published[2].time = MAX_FRAME_DT

\* C30: a start that is not ignored publishes the current state and makes
\* it the only point of both histories when the history is empty, and
\* leaves the published state and both histories as they were when it is
\* not; while the status is Running the histories are not empty.
C30_StartPublishesFirstPoint ==
  /\ [](statusRef = "running" => historyRef # <<>> /\ history # <<>>)
  /\ [][(lastCall'.name = "start" /\ statusRef # "running") =>
          /\ statusRef' = "running"
          /\ IF historyRef = <<>>
               THEN /\ state' = stateRef
                    /\ historyRef' = <<historyPoint(stateRef)>>
                    /\ history' = historyRef'
               ELSE /\ state' = state
                    /\ historyRef' = historyRef
                    /\ history' = history
                    /\ published' = published
    ]_vars

\* A start made from Idle with an empty history, some time after mounting:
\* the histories hold one point, the initial state at time 0.
C30_Witness ==
  /\ lastCall.name = "start"
  /\ lastCall.from = "idle"
  /\ clock > 0
  /\ stepCountRef = 0
  /\ Len(history) = 1
  /\ history[1].time = 0
  /\ history[1].height = paramsRef.bucket.h0
  /\ Len(published) = 1

(***************************************************************************)
(* The state at time 0, the accumulator, the pending frame                 *)
(***************************************************************************)

\* All four flows of a state or a history point are 0.
ZeroFlows(s) == s.qIn = 0 /\ s.qOut = 0 /\ s.qSpill = 0 /\ s.qNet = 0

\* C31: a current, published or recorded state at time 0 reports zero flows
\* and no spilling, whatever the parameters; a reset and a start that
\* publishes show such a state; the first physics step after it yields the
\* state at time FIXED_DT, with the flows of the laws at time 0 and at the
\* height before the step.
C31_InitialStateHasNoFlows ==
  /\ [](/\ stateRef.time = 0 =>
             /\ ZeroFlows(stateRef)
             /\ ~stateRef.isSpilling
             /\ stepCountRef = 0
        /\ state.time = 0 => ZeroFlows(state) /\ ~state.isSpilling
        /\ \A i \in 1..Len(history) :
             history[i].time = 0 => ZeroFlows(history[i])
        /\ \A i \in 1..Len(historyRef) :
             historyRef[i].time = 0 => ZeroFlows(historyRef[i]))
  /\ [][/\ lastCall'.name = "reset" =>
             /\ stateRef'.time = 0
             /\ ZeroFlows(stateRef')
             /\ state' = stateRef'
        /\ (lastCall'.name = "start" /\ statusRef # "running"
              /\ historyRef = <<>>) =>
             /\ state'.time = 0
             /\ ZeroFlows(state')
             /\ ~state'.isSpilling
             /\ ZeroFlows(history'[1])
        /\ (RunningTick /\ stepCountRef = 0 /\ stepCountRef' = 1) =>
             LET qIn == calculateInflow(0, paramsRef.inflow)
                 qOut == calculateOutflow(stateRef.height, paramsRef.outflow)
             IN  /\ stateRef'.time = FIXED_DT
                 /\ stateRef'.qIn = qIn
                 /\ stateRef'.qOut = qOut
                 /\ stateRef'.qSpill
                      = calculateSpill(stateRef.height, paramsRef.bucket.hMax,
                                       qIn, qOut)
       ]_vars

\* Under edited parameters, one step after a reset: the point recorded at
\* time 0 has no flows, the current state at FIXED_DT has.
C31_Witness ==
  /\ paramsRef # DEFAULT_PARAMS
  /\ ~editedSinceReset
  /\ stepCountRef = 1
  /\ stateRef.time = FIXED_DT
  /\ stateRef.qIn > 0
  /\ stateRef.qOut > 0
  /\ history # <<>>
  /\ history[1].time = 0
  /\ ZeroFlows(history[1])

\* C32: a frame processed while Running whose timestamp is not before the
\* previous one leaves an accumulator in [0, FIXED_DT): what remains of the
\* old accumulator plus the capped frame delta after whole steps are taken
\* out.
C32_AccumulatorBelowStep ==
  [][(RunningTick /\ lastTimeRef' >= lastTimeRef) =>
       LET frameDt == ElapsedSincePreviousTick
           added == IF frameDt < MAX_FRAME_DT THEN frameDt ELSE MAX_FRAME_DT
       IN  /\ accumulatorRef' >= 0
           /\ accumulatorRef' < FIXED_DT
           /\ accumulatorRef' = (accumulatorRef + added) % FIXED_DT
    ]_vars

\* A frame left the largest remainder there is, after steps have run.
C32_Witness ==
  /\ lastCall.name = "tick"
  /\ lastCall.from = "running"
  /\ ~lastCall.first
  /\ stepCountRef > 1
  /\ accumulatorRef = FIXED_DT - 1

\* C33: between operations, stepCount * FIXED_DT + accumulator is the sum of
\* the capped frame deltas of the frames processed since the last reset;
\* pause and start change neither the step counter nor the accumulator, so
\* what a pause leaves in the accumulator is used after the resume.
C33_AccumulatorAccounting ==
  /\ [](stepCountRef * FIXED_DT + accumulatorRef = frameTime)
  /\ [][lastCall'.name \in {"pause", "start"} =>
          /\ accumulatorRef' = accumulatorRef
          /\ stepCountRef' = stepCountRef
    ]_vars

\* A run that took a capped frame and some short ones was paused with a
\* remainder in the accumulator and has just been resumed.
C33_Witness ==
  /\ lastCall.name = "start"
  /\ lastCall.from = "paused"
  /\ statusRef = "running"
  /\ frameTime > MAX_FRAME_DT
  /\ accumulatorRef > 0
  /\ stepCountRef * FIXED_DT = frameTime - accumulatorRef

\* C34: between operations the host holds at most one frame callback of the
\* driver, the one whose handle the driver keeps, and it holds one exactly
\* when the status is Running; the step counter and the current state
\* change only in a frame processed while Running or in a reset, and the
\* status becomes Running only in start.
C34_OnePendingFrameWhileRunning ==
  /\ [](/\ Cardinality(rafPending) <= 1
        /\ rafPending # {} <=> statusRef = "running"
        /\ rafPending = IF rafIdRef = NoRaf THEN {} ELSE {rafIdRef})
  /\ [][/\ (stepCountRef' # stepCountRef \/ stateRef' # stateRef) =>
             RunningTick \/ lastCall'.name = "reset"
        /\ (statusRef # "running" /\ statusRef' = "running") =>
             lastCall'.name = "start"
        /\ lastCall'.name \in {"pause", "reset"} => rafPending' = {}
       ]_vars

\* A frame arrived after the run was paused, resumed and paused again: it
\* was ignored, nothing is pending and the steps of the run are kept.
C34_Witness ==
  /\ lastCall.name = "tick"
  /\ lastCall.from = "paused"
  /\ rafPending = {}
  /\ rafIdRef = NoRaf
  /\ stepCountRef > 0
  /\ accumulatorRef > 0

(***************************************************************************)
(* Publication lag, history spacing, spilling, progress                    *)
(***************************************************************************)

\* C35: between operations the published state is the current state or an
\* earlier one, less than a publish interval behind it, and lastPublishRef
\* is the time of the published state.
C35_PublishedLagsLessThanInterval ==
  /\ stateRef.time - state.time >= 0
  /\ stateRef.time - state.time < publishInterval
  /\ lastPublishRef = state.time
  /\ stateRef.time = state.time => state = stateRef

\* A run paused at the largest lag there is: one step short of the next
\* publication.
C35_Witness ==
  /\ statusRef = "paused"
  /\ Len(published) > 1
  /\ state.time > 0
  /\ stateRef.time - state.time = publishInterval - FIXED_DT

\* Successive points are at least a publish interval apart in time.
Spaced(h) ==
  \A i \in 1..Len(h) : \A j \in 1..Len(h) :
    i < j => h[j].time - h[i].time >= (j - i) * publishInterval

\* C36: in both histories, and in the sequence of all points published
\* since the last reset, times increase strictly and successive points are
\* at least a publish interval apart; the first point published after a
\* reset is the one at time 0 and no later point has that time.
C36_HistoryTimesSpaced ==
  /\ publishInterval > 0
  /\ Spaced(historyRef)
  /\ Spaced(history)
  /\ Spaced(published)
  /\ published # <<>> => published[1].time = 0
  /\ history # <<>> => Last(history) = Last(published)

\* A full history that has dropped its point at time 0: its points are
\* exactly one publish interval apart.
C36_Witness ==
  /\ Len(published) > HISTORY_BUFFER_SIZE
  /\ published[1].time = 0
  /\ Len(history) = HISTORY_BUFFER_SIZE
  /\ history[1].time > 0
  /\ \A i \in 1..(Len(history) - 1) :
       history[i + 1].time - history[i].time = publishInterval

\* A state or history point that reports a spill has no net flow and is at
\* the brim of the bucket of the given parameters.
SpillAtBrim(s, params) ==
  s.qSpill > 0 => s.qNet = 0 /\ s.height = params.bucket.hMax

\* C37: in the current and in the published state isSpilling is true
\* exactly when qSpill > 0; a state a frame's steps have just produced, and
\* every state and recorded point of a run whose parameters were not edited
\* since the reset, has qNet = 0 and height = hMax if it spills.
C37_SpillingFlag ==
  /\ [](/\ stateRef.isSpilling <=> stateRef.qSpill > 0
        /\ state.isSpilling <=> state.qSpill > 0
        /\ ~editedSinceReset =>
             /\ SpillAtBrim(stateRef, paramsRef)
             /\ SpillAtBrim(state, paramsRef)
             /\ \A i \in 1..Len(history) : SpillAtBrim(history[i], paramsRef))
  /\ [][(RunningTick /\ stepCountRef' > stepCountRef) =>
          /\ SpillAtBrim(stateRef', paramsRef)
          /\ state' # state => SpillAtBrim(state', paramsRef)
       ]_vars

\* The bucket was lowered below the water in mid-run and the next frame's
\* steps brought the height to the new brim, spilling; the history still
\* holds a point of the deeper bucket.
C37_Witness ==
  /\ lastCall.name = "tick"
  /\ editedSinceReset
  /\ paramsRef.bucket.hMax < DEFAULT_PARAMS.bucket.hMax
  /\ stateRef.isSpilling
  /\ stateRef.qSpill > 0
  /\ stateRef.qNet = 0
  /\ stateRef.height = paramsRef.bucket.hMax
  /\ state = stateRef
  /\ history[1].height > paramsRef.bucket.hMax

\* The shortest time between two frames, in timestamp units.
MinGap == CHOOSE g \in FrameGaps : \A h \in FrameGaps : g <= h

\* Frames MinGap apart that add up to at least the given simulated time.
FramesFor(time) ==
  (time + MsToSeconds(MinGap) - 1) \div MsToSeconds(MinGap)

\* The clock of the model allows the first frame after a start, which adds
\* no time however late it comes, and k frames MinGap apart after it.
ClockAllows(k) ==
  /\ clock + MinGap * (k + 1) <= MaxClock
  /\ (freshStart /\ clock + MaxGap <= MaxClock) =>
       clock + MaxGap + MinGap * k <= MaxClock

\* The step counters and history lengths a run of the model can reach.
MaxSteps == MsToSeconds(MaxClock) \div FIXED_DT

\* C38: from a Running state with room on the clock for the frames needed,
\* the step counter grows, and a further point is published, unless the
\* status leaves Running first: frames shorter than FIXED_DT add up.
C38_Progress ==
  /\ FIXED_DT > MsToSeconds(MinGap)
  /\ \A n \in 0..MaxSteps :
       (/\ statusRef = "running"
        /\ stepCountRef = n
        /\ ClockAllows(FramesFor(FIXED_DT)))
         ~> (stepCountRef > n \/ statusRef # "running")
  /\ \A k \in 0..MaxSteps :
       (/\ statusRef = "running"
        /\ Len(published) = k
        /\ ClockAllows(FramesFor(publishInterval)))
         ~> (Len(published) > k \/ statusRef # "running")

\* A run of frames each shorter than FIXED_DT, never paused, that has taken
\* steps and published beyond the initial point.
C38_Witness ==
  /\ statusRef = "running"
  /\ lastCall.name = "tick"
  /\ lastCall.gap = MinGap
  /\ frameTime = MsToSeconds(MinGap) * (clock - 1)
  /\ stepCountRef >= FramesFor(publishInterval)
  /\ Len(published) > 2

=============================================================================
